---- MODULE Spec2Model ----
(***************************************************************************)
(* Model of the agent session orchestration layer of chooks-agent:         *)
(*   - the CLI chat host (cli.ts): the 'line' handler, the 500 ms mailbox  *)
(*     poll, cleanup, and the session continuity token;                    *)
(*   - SlackChannel (src/channels/slack.ts): sendMessage, ownsJid, and the *)
(*     message listener with its name cache and collaborators;             *)
(*   - the watchdog script: the container sweep and the heartbeat check.   *)
(* runContainerAgent (container-runner.ts) and the sandboxed agent appear   *)
(* through their contract: launch, onLaunch, streamed outputs, envelopes,  *)
(* termination with a final output or a rejection.                         *)
(***************************************************************************)
EXTENDS Integers, Sequences, FiniteSets, TLC

(* ------------------------------ bounds -------------------------------- *)
MaxTurns == 2      \* input lines that start a turn
MaxMailTurns == 1  \* the same, in the mailbox specifications
MaxFiles == 2      \* envelopes written to the mailbox, over all turns
MaxExits == 1      \* host exits (each followed by a possible restart)
MaxInc == 1        \* incremental outputs streamed, over all turns
MaxLen == 3        \* length of an envelope text, in symbols

None == "none"
Tokens == {"s1", "s2"}
TokenOrNone == Tokens \cup {None}

(* ------------------------- envelope texts ------------------------------ *)
\* A text is a sequence of symbols: "O" stands for the literal <internal>,
\* "C" for </internal>, "x" for a visible character, "_" for whitespace.
Symbols == {"O", "C", "x", "_"}

RECURSIVE TextsOfLen(_)
TextsOfLen(n) ==
    IF n = 0 THEN {<<>>}
    ELSE {Append(s, c) : s \in TextsOfLen(n - 1), c \in Symbols}

Texts == UNION {TextsOfLen(n) : n \in 0..MaxLen}

\* Index of the first "C" strictly after position 1 of s, or 0.
FirstClose(s) ==
    LET cs == {j \in 2..Len(s) : s[j] = "C"}
    IN IF cs = {} THEN 0 ELSE CHOOSE j \in cs : \A k \in cs : j <= k

\* Index of the last "C" strictly after position 1 of s, or 0.
LastClose(s) ==
    LET cs == {j \in 2..Len(s) : s[j] = "C"}
    IN IF cs = {} THEN 0 ELSE CHOOSE j \in cs : \A k \in cs : j >= k

\* The same replacement with a greedy quantifier, [\s\S]*.
RECURSIVE StripInternalGreedy(_)
StripInternalGreedy(s) ==
    IF s = <<>> THEN <<>>
    ELSE IF Head(s) = "O" /\ LastClose(s) # 0
         THEN StripInternalGreedy(SubSeq(s, LastClose(s) + 1, Len(s)))
         ELSE <<Head(s)>> \o StripInternalGreedy(Tail(s))

\* text.replace(/<internal>[\s\S]*?<\/internal>/g, ''): one left-to-right
\* pass, each match the shortest one starting at the leftmost opening tag.
RECURSIVE StripInternal(_)
StripInternal(s) ==
    IF s = <<>> THEN <<>>
    ELSE IF Head(s) = "O" /\ FirstClose(s) # 0
         THEN StripInternal(SubSeq(s, FirstClose(s) + 1, Len(s)))
         ELSE <<Head(s)>> \o StripInternal(Tail(s))

RECURSIVE TrimStart(_)
TrimStart(s) ==
    IF s # <<>> /\ Head(s) = "_" THEN TrimStart(Tail(s)) ELSE s

RECURSIVE TrimEnd(_)
TrimEnd(s) ==
    IF s # <<>> /\ s[Len(s)] = "_" THEN TrimEnd(SubSeq(s, 1, Len(s) - 1)) ELSE s

\* String.prototype.trim
Trim(s) == TrimEnd(TrimStart(s))

(* --------------------------- mailbox files ----------------------------- *)
\* A mailbox file: its name suffix, whether JSON.parse accepts its content,
\* and the parsed type and text.  textKind "absent" is a missing or empty
\* text, "number" a truthy non-string text (data.text.replace is undefined).
Envelope(suffix, parses, type, textKind, text) ==
    [suffix |-> suffix, parses |-> parses, type |-> type,
     textKind |-> textKind, text |-> text]

Malformed == Envelope("json", FALSE, "none", "absent", <<>>)

AllEnvelopes ==
    {Envelope("json", TRUE, ty, "string", s) : ty \in {"message", "other"},
                                                s \in Texts \ {<<>>}}
    \cup {Envelope("json", TRUE, ty, k, <<>>) : ty \in {"message", "other"},
                                                k \in {"absent", "number"}}
    \cup {Malformed, Envelope("tmp", TRUE, "message", "string", <<"x">>)}

\* What the sandbox writes in the session model.
SandboxEnvelopes ==
    {Envelope("json", TRUE, "message", "string", <<"x">>), Malformed}

(* ------------------------------ state ---------------------------------- *)
VARIABLES
    host,                 \* "running" | "exited": the CLI host process
    exits,                \* number of host exits so far
    sessions,             \* sessions[groupFolder], the in-memory token
    dbSession,            \* the token persisted by setSession(groupFolder, .)
    activeProcess,        \* turn whose process handle is tracked, 0 for null
    activeContainerName,  \* turn whose container name is tracked, 0 for null
    turns,                \* per input line: the 'line' handler and its sandbox
    files,                \* every envelope written so far: [turn, env]
    mailbox,              \* indices of files present in ipc/<folder>/messages
    log,                  \* what the host printed, in order, and its exits
    handled,              \* the output the host handled last, and the
                          \* token stored when its handling began
    readFiles,            \* files some polling pass has read
    snapshot,             \* the snapshot files of the folder: the turn that
                          \* wrote them last and the files it wrote, in order
    streamed,             \* number of incremental outputs streamed so far
    cancelled             \* what cleanup of this host run attempted: the turn
                          \* whose handle was tracked, and the steps in order

cliVars == <<host, exits, sessions, dbSession, activeProcess,
             activeContainerName, turns, files, mailbox, log, handled,
             readFiles, snapshot, streamed, cancelled>>

(* The Slack channel object (src/channels/slack.ts). *)
VARIABLES
    app,        \* this.app: "null" | "app"
    sPc,        \* sendMessage: "idle" | "posting" | "done"
    sJid,       \* its jid argument
    sText,      \* its text argument, a sequence of characters
    sI,         \* the loop variable i; -1 in the unsplit branch
    calls,      \* chat.postMessage calls made by the current send, in order
    sFailed,    \* a postMessage call of the current send rejected
    sResult     \* "pending" | "resolved" | "rejected": the returned promise

slackVars == <<app, sPc, sJid, sText, sI, calls, sFailed, sResult>>

(* The inbound side of the Slack channel: the listener registered by
   connect() and the collaborators it calls. *)
VARIABLES
    registered,     \* the JIDs that are keys of this.opts.registeredGroups()
    handlers,       \* per inbound event: the listener invocation handling it
    userNameCache,  \* this.userNameCache: user id -> name, or None
    lookups         \* per user id, the users.info calls issued so far

inboundVars == <<registered, handlers, userNameCache, lookups>>

(* The watchdog script, the container runtime's table it lists and the
   heartbeat file it reads. *)
VARIABLES
    now,         \* the wall clock: [s, ms]
    instances,   \* the runtime's containers: name, status, creation time,
                 \* and whether the reaper issued a stop for them
    heartbeat,   \* the heartbeat file: absent, empty, or an epoch in ms
    hostProc,    \* the host process (node dist/index.js): "running" | "killed"
    wpc,         \* the watchdog run: "idle" | "heartbeat" (sweep done)
    wlog         \* the lines the current or last watchdog run logged

watchdogVars == <<now, instances, heartbeat, hostProc, wpc, wlog>>

(* Calls of SlackChannel.ownsJid. *)
VARIABLES
    probes       \* the ownsJid calls made so far: the JID, the answer and
                 \* the channel's app field at the time

probeVars == <<probes>>

nonCliVars == <<slackVars, inboundVars, watchdogVars, probeVars>>
nonSendVars == <<cliVars, inboundVars, watchdogVars, probeVars>>
nonInboundVars == <<cliVars, slackVars, watchdogVars, probeVars>>
nonWatchdogVars == <<cliVars, slackVars, inboundVars, probeVars>>
nonProbeVars == <<cliVars, slackVars, inboundVars, watchdogVars>>

TurnIds == 1..MaxTurns

\* Final outputs runContainerAgent resolves to.
Output(status, tok) == [status |-> status, newSessionId |-> tok]
FinalOutputs == {Output(st, tok) : st \in {"success", "error"}, tok \in TokenOrNone}

\* Streamed outputs handed to the onIncremental callback.
Incremental(tok, hasResult) == [newSessionId |-> tok, result |-> hasResult]
IncrementalOutputs == {Incremental(tok, r) : tok \in TokenOrNone, r \in BOOLEAN}

IdleTurn ==
    [pc |-> "idle", container |-> "none"]

\* Nothing cancelled.
\* The snapshot files as a turn's writes left them.
Snapshot(t, writes) == [turn |-> t, writes |-> writes]
NoSnapshot == Snapshot(0, <<>>)

\* A handler that writes the tasks snapshot only.
SnapshotWritesTasksOnly == <<"tasks">>

\* writeTasksSnapshot(...) and then writeGroupsSnapshot(...), both
\* synchronous.
SnapshotWrites == <<"tasks", "groups">>

NotCancelled == [turn |-> 0, steps |-> <<>>]

Event(kind, id, text) == [kind |-> kind, id |-> id, text |-> text]

\* The output handled last: by the onIncremental callback ("incremental"),
\* after the await ("final"), or by the catch block ("threw").
\* effects lists what the handling did, in program order.
Handled(kind, t, newSessionId, prior, effects) ==
    [kind |-> kind, turn |-> t, newSessionId |-> newSessionId, prior |-> prior,
     effects |-> effects]

\* A runContainerAgent call of turn t is in progress.
Active(t) == turns[t].pc \in {"launching", "awaiting"}

CliInit ==
    /\ host = "running"
    /\ exits = 0
    /\ dbSession = None
    /\ sessions = dbSession
    /\ activeProcess = 0
    /\ activeContainerName = 0
    /\ turns = [t \in TurnIds |-> IdleTurn]
    /\ files = <<>>
    /\ mailbox = {}
    /\ log = <<>>
    /\ handled = Handled("none", 0, None, None, <<>>)
    /\ readFiles = {}
    /\ snapshot = NoSnapshot
    /\ streamed = 0
    /\ cancelled = NotCancelled

(* --------------------------- mailbox poll ------------------------------ *)
\* Body of the for loop of ipcInterval for one file: whether the text is
\* printed, the printed text, and whether unlinkSync is reached.
ProcessFile(env) ==
    IF ~env.parses
      THEN [deliver |-> FALSE, text |-> <<>>, unlink |-> FALSE]
    ELSE IF env.type = "message" /\ env.textKind = "number"
      THEN [deliver |-> FALSE, text |-> <<>>, unlink |-> FALSE]
    ELSE IF env.type = "message" /\ env.textKind = "string" /\ env.text # <<>>
      THEN LET text == Trim(StripInternal(env.text))
           IN [deliver |-> text # <<>>, text |-> text, unlink |-> TRUE]
    ELSE [deliver |-> FALSE, text |-> <<>>, unlink |-> TRUE]

\* readdirSync(...).filter(f => f.endsWith('.json'))
Listed == {f \in mailbox : files[f].env.suffix = "json"}

\* The log lines one pass prints, files taken in listing order.
RECURSIVE PassPrints(_)
PassPrints(f) ==
    IF f > Len(files) THEN <<>>
    ELSE (IF f \in Listed /\ ProcessFile(files[f].env).deliver
            THEN <<Event("ipc", f, ProcessFile(files[f].env).text)>>
            ELSE <<>>) \o PassPrints(f + 1)

PassUnlinks == {f \in Listed : ProcessFile(files[f].env).unlink}

\* One tick of the setInterval(..., 500) callback.
Poll ==
    /\ UNCHANGED nonCliVars
    /\ UNCHANGED cancelled
    /\ host = "running"
    /\ log' = log \o PassPrints(1)
    /\ mailbox' = mailbox \ PassUnlinks
    /\ readFiles' = readFiles \cup Listed
    /\ UNCHANGED <<host, exits, sessions, dbSession, activeProcess,
                   activeContainerName, turns, files, handled, snapshot,
                   streamed>>

MaxCrashes == 2    \* host crashes inside a polling pass

\* The statements of the loop body a crash can fall between: after
\* readFileSync and JSON.parse ("read"), after console.log ("delivered").
CrashPoints == {"read", "delivered"}

\* The log lines a pass prints for the listed files g, g + 1, ... before f.
RECURSIVE PassPrintsBefore(_, _)
PassPrintsBefore(g, f) ==
    IF g >= f THEN <<>>
    ELSE (IF g \in Listed /\ ProcessFile(files[g].env).deliver
            THEN <<Event("ipc", g, ProcessFile(files[g].env).text)>>
            ELSE <<>>) \o PassPrintsBefore(g + 1, f)

\* A pass whose loop body deletes the file before it prints, killed while
\* it handles file f.
PollCrashesUnlinkFirst(f, point) ==
    /\ UNCHANGED nonCliVars
    /\ host = "running"
    /\ exits < MaxCrashes
    /\ f \in Listed
    /\ point = "delivered" => ProcessFile(files[f].env).deliver
    /\ host' = "exited"
    /\ exits' = exits + 1
    /\ log' = log \o PassPrintsBefore(1, f)
                  \o (IF point = "delivered"
                        THEN <<Event("ipc", f, ProcessFile(files[f].env).text)>>
                        ELSE <<>>)
                  \o <<Event("crash", f, <<point>>)>>
    /\ mailbox' = mailbox \ {g \in PassUnlinks : g <= f}
    /\ readFiles' = readFiles \cup {g \in Listed : g <= f}
    /\ UNCHANGED <<sessions, dbSession, activeProcess, activeContainerName,
                   turns, files, handled, snapshot, streamed, cancelled>>

\* The host process is killed while a polling pass handles file f: the
\* files listed before f were handled in full; f was read and parsed, and
\* at point "delivered" also printed; unlinkSync of f was not reached.
PollCrashes(f, point) ==
    /\ UNCHANGED nonCliVars
    /\ host = "running"
    /\ exits < MaxCrashes
    /\ f \in Listed
    /\ point = "delivered" => ProcessFile(files[f].env).deliver
    /\ host' = "exited"
    /\ exits' = exits + 1
    /\ log' = log \o PassPrintsBefore(1, f)
                  \o (IF point = "delivered"
                        THEN <<Event("ipc", f, ProcessFile(files[f].env).text)>>
                        ELSE <<>>)
                  \o <<Event("crash", f, <<point>>)>>
    /\ mailbox' = mailbox \ {g \in PassUnlinks : g < f}
    /\ readFiles' = readFiles \cup {g \in Listed : g <= f}
    /\ UNCHANGED <<sessions, dbSession, activeProcess, activeContainerName,
                   turns, files, handled, snapshot, streamed, cancelled>>

(* ------------------------- the 'line' handler -------------------------- *)
\* The update guarded by "no token stored yet" instead.
SessionAfterKeepFirst(cur, newSessionId) ==
    IF cur # None THEN cur ELSE newSessionId

\* if (x.newSessionId) { sessions[groupFolder] = x.newSessionId;
\*                       setSession(groupFolder, x.newSessionId); }
SessionAfter(cur, newSessionId) ==
    IF newSessionId # None THEN newSessionId ELSE cur

\* The body of `if (activeProcess && !activeProcess.killed)` in cleanup():
\* the sentinel write and stdin.end() in one try, then, if a container name
\* is tracked, `container stop` in another.  Both catch blocks are empty, so
\* a throwing write changes nothing of what follows.  (The host never calls
\* kill() on the handle, so killed is false.)
CancelSteps ==
    <<"sentinel">> \o (IF activeContainerName # 0 THEN <<"stop">> ELSE <<>>)

\* cleanup(): clearInterval, the _close sentinel on the tracked process'
\* stdin, `container stop` of the tracked container (best effort: stopOk
\* tells whether the stop took effect), then process.exit(0).  Handlers
\* suspended in an await never resume.
CleanupTurn(t, stopOk) ==
    [turns[t] EXCEPT
       !.pc = IF Active(t) THEN "abandoned" ELSE @,
       !.container = IF activeProcess # 0 /\ activeContainerName = t
                        /\ stopOk /\ @ = "running"
                      THEN "stopped" ELSE @]

\* A cleanup that also forgets the stored token.
cleanupClearsSession(stopOk) ==
    /\ exits < MaxExits
    /\ host' = "exited"
    /\ exits' = exits + 1
    /\ turns' = [t \in TurnIds |-> CleanupTurn(t, stopOk)]
    /\ cancelled' = IF activeProcess # 0
                      THEN [turn |-> activeProcess, steps |-> CancelSteps]
                      ELSE NotCancelled
    /\ log' = Append(log, Event("exit", 0, <<>>))
    /\ sessions' = None
    /\ dbSession' = None
    /\ UNCHANGED <<activeProcess, activeContainerName,
                   files, mailbox, handled, readFiles, snapshot, streamed>>

cleanup(stopOk) ==
    /\ exits < MaxExits
    /\ host' = "exited"
    /\ exits' = exits + 1
    /\ turns' = [t \in TurnIds |-> CleanupTurn(t, stopOk)]
    /\ cancelled' = IF activeProcess # 0
                      THEN [turn |-> activeProcess, steps |-> CancelSteps]
                      ELSE NotCancelled
    /\ log' = Append(log, Event("exit", 0, <<>>))
    /\ UNCHANGED <<sessions, dbSession, activeProcess, activeContainerName,
                   files, mailbox, handled, readFiles, snapshot, streamed>>

\* rl.on('line') up to the call of runContainerAgent, for the line's
\* trimmed input: "" re-prompts, "exit"/"quit" run cleanup, anything else
\* writes the snapshots, reads sessions[groupFolder] and starts a turn.
Line(t, input) ==
    /\ UNCHANGED nonCliVars
    /\ host = "running"
    /\ turns[t].pc = "idle"
    /\ \A u \in TurnIds : u < t => turns[u].pc # "idle"
    /\ CASE input = "" -> UNCHANGED cliVars
         [] input = "exit" -> \E stopOk \in BOOLEAN : cleanup(stopOk)
         [] OTHER ->
              /\ snapshot' = Snapshot(t, SnapshotWrites)
              /\ turns' = [turns EXCEPT ![t].pc = "launching"]
              /\ UNCHANGED <<host, exits, sessions, dbSession, activeProcess,
                             activeContainerName, files, mailbox, log,
                             handled, readFiles, streamed, cancelled>>

\* SIGINT, SIGTERM and rl 'close' all run cleanup.
Signal ==
    /\ UNCHANGED nonCliVars
    /\ host = "running"
    /\ \E stopOk \in BOOLEAN : cleanup(stopOk)

\* A start that empties the mailbox directory instead of keeping it.
HostStartWipes ==
    /\ UNCHANGED nonCliVars
    /\ host = "exited"
    /\ host' = "running"
    /\ sessions' = dbSession
    /\ activeProcess' = 0
    /\ activeContainerName' = 0
    /\ cancelled' = NotCancelled
    /\ mailbox' = {}
    /\ UNCHANGED <<exits, dbSession, turns, files, log, handled, readFiles, snapshot,
                   streamed>>

\* main() of the next host run: getAllSessions(), null handles, mkdirSync
\* of the mailbox directory (recursive: an existing directory is kept).
HostStart ==
    /\ UNCHANGED nonCliVars
    /\ host = "exited"
    /\ host' = "running"
    /\ sessions' = dbSession
    /\ activeProcess' = 0
    /\ activeContainerName' = 0
    /\ cancelled' = NotCancelled
    /\ UNCHANGED <<exits, dbSession, turns, files, mailbox, log, handled, readFiles,
                   snapshot, streamed>>

\* The onLaunch callback: (proc, containerName) => { activeProcess = proc;
\* activeContainerName = containerName; }, fired once the sandbox started.
Launch(t) ==
    /\ UNCHANGED nonCliVars
    /\ UNCHANGED cancelled
    /\ host = "running"
    /\ turns[t].pc = "launching"
    /\ turns' = [turns EXCEPT ![t].pc = "awaiting", ![t].container = "running"]
    /\ activeProcess' = t
    /\ activeContainerName' = t
    /\ UNCHANGED <<host, exits, sessions, dbSession, files, mailbox, log,
                   handled, readFiles, snapshot, streamed>>

\* runContainerAgent rejects instead of launching.
LaunchFails(t) ==
    /\ UNCHANGED nonCliVars
    /\ UNCHANGED cancelled
    /\ host = "running"
    /\ turns[t].pc = "launching"
    /\ turns' = [turns EXCEPT ![t].pc = "awaiting", ![t].container = "failed"]
    /\ UNCHANGED <<host, exits, sessions, dbSession, activeProcess,
                   activeContainerName, files, mailbox, log, handled, readFiles,
                   snapshot, streamed>>

\* The sandbox writes one envelope file into the mailbox.
SandboxWrite(t, env) ==
    /\ UNCHANGED nonCliVars
    /\ UNCHANGED cancelled
    /\ turns[t].container = "running"
    /\ Len(files) < MaxFiles
    /\ files' = Append(files, [turn |-> t, env |-> env])
    /\ mailbox' = mailbox \cup {Len(files) + 1}
    /\ UNCHANGED <<host, exits, sessions, dbSession, activeProcess,
                   activeContainerName, turns, log, handled, readFiles, snapshot,
                   streamed>>

\* The onIncremental callback in program order, with the statements
\* swapped: the result is printed before the token is stored.
IncrementalEffectsPrintFirst(o) ==
    (IF o.result THEN <<"print">> ELSE <<>>)
        \o (IF o.newSessionId # None THEN <<"sessions", "setSession">> ELSE <<>>)

\* The onIncremental callback in program order: the session update, then
\* the print of the result.
IncrementalEffects(o) ==
    (IF o.newSessionId # None THEN <<"sessions", "setSession">> ELSE <<>>)
        \o (IF o.result THEN <<"print">> ELSE <<>>)

\* The statements after the await in program order: the final session
\* update, then the error report.
FinalEffects(out) ==
    (IF out.newSessionId # None THEN <<"sessions", "setSession">> ELSE <<>>)
        \o (IF out.status = "error" THEN <<"error">> ELSE <<>>)

\* The onIncremental callback, run for a streamed output o of turn t.
OnIncremental(t, o) ==
    /\ UNCHANGED nonCliVars
    /\ UNCHANGED cancelled
    /\ host = "running"
    /\ turns[t].pc = "awaiting"
    /\ turns[t].container = "running"
    /\ streamed < MaxInc
    /\ streamed' = streamed + 1
    /\ sessions' = SessionAfter(sessions, o.newSessionId)
    /\ dbSession' = SessionAfter(dbSession, o.newSessionId)
    /\ handled' = Handled("incremental", t, o.newSessionId, dbSession,
                        IncrementalEffects(o))
    /\ log' = IF o.result THEN Append(log, Event("inc", t, <<"x">>)) ELSE log
    /\ UNCHANGED <<host, exits, activeProcess, activeContainerName, turns,
                   files, mailbox, readFiles, snapshot>>

\* The sandbox terminates.
SandboxExit(t) ==
    /\ UNCHANGED nonCliVars
    /\ UNCHANGED cancelled
    /\ turns[t].container = "running"
    /\ turns' = [turns EXCEPT ![t].container = "exited"]
    /\ UNCHANGED <<host, exits, sessions, dbSession, activeProcess,
                   activeContainerName, files, mailbox, log, handled, readFiles,
                   snapshot, streamed>>

\* rl.on('line') after the await, runContainerAgent having resolved to
\* out: the final session update and the error report, then the handles are
\* nulled and the prompt shown.
Complete(t, out) ==
    /\ UNCHANGED nonCliVars
    /\ UNCHANGED cancelled
    /\ host = "running"
    /\ turns[t].pc = "awaiting"
    /\ turns[t].container = "exited"
    /\ sessions' = SessionAfter(sessions, out.newSessionId)
    /\ dbSession' = SessionAfter(dbSession, out.newSessionId)
    /\ handled' = Handled("final", t, out.newSessionId, dbSession,
                        FinalEffects(out))
    /\ log' = log \o (IF out.status = "error" THEN <<Event("error", t, <<>>)>>
                       ELSE <<>>)
                   \o <<Event("final", t, <<>>)>>
    /\ activeProcess' = 0
    /\ activeContainerName' = 0
    /\ turns' = [turns EXCEPT ![t].pc = "done"]
    /\ UNCHANGED <<host, exits, files, mailbox, readFiles, snapshot, streamed>>

\* A catch block that resets the folder's session.
CatchClearsSession(t) ==
    /\ UNCHANGED nonCliVars
    /\ UNCHANGED cancelled
    /\ host = "running"
    /\ turns[t].pc = "awaiting"
    /\ turns[t].container = "failed"
    /\ handled' = Handled("threw", t, None, dbSession, <<"error">>)
    /\ log' = log \o <<Event("error", t, <<>>), Event("final", t, <<>>)>>
    /\ activeProcess' = 0
    /\ activeContainerName' = 0
    /\ turns' = [turns EXCEPT ![t].pc = "done"]
    /\ sessions' = None
    /\ dbSession' = None
    /\ UNCHANGED <<host, exits, files, mailbox, readFiles, snapshot, streamed>>

\* rl.on('line') when runContainerAgent rejected: the catch block reports
\* the error, nothing is stored; the handles are nulled and the prompt shown.
Catch(t) ==
    /\ UNCHANGED nonCliVars
    /\ UNCHANGED cancelled
    /\ host = "running"
    /\ turns[t].pc = "awaiting"
    /\ turns[t].container = "failed"
    /\ handled' = Handled("threw", t, None, dbSession, <<"error">>)
    /\ log' = log \o <<Event("error", t, <<>>), Event("final", t, <<>>)>>
    /\ activeProcess' = 0
    /\ activeContainerName' = 0
    /\ turns' = [turns EXCEPT ![t].pc = "done"]
    /\ UNCHANGED <<host, exits, sessions, dbSession, files, mailbox, readFiles,
                   snapshot, streamed>>

\* The turn life cycle common to the specifications below, for the input
\* lines T.
TurnNext(T) ==
    \/ \E t \in T, input \in {"", "exit", "hi"} : Line(t, input)
    \/ Signal
    \/ \E t \in T : Launch(t)
    \/ \E t \in T : SandboxExit(t)

\* Session continuity: the turns of one host run, whose outputs carry
\* tokens and may fail.
SessionNext ==
    \/ TurnNext(TurnIds)
    \/ \E t \in TurnIds : LaunchFails(t)
    \/ \E t \in TurnIds, o \in IncrementalOutputs : OnIncremental(t, o)
    \/ \E t \in TurnIds, out \in FinalOutputs : Complete(t, out)
    \/ \E t \in TurnIds : Catch(t)

\* Mailbox: turns whose sandbox writes envelopes, polled by the host, over
\* successive host runs.
MailTurnIds == 1..MaxMailTurns

MailNext ==
    \/ TurnNext(MailTurnIds)
    \/ HostStart
    \/ Poll
    \/ \E t \in MailTurnIds, env \in SandboxEnvelopes : SandboxWrite(t, env)
    \/ \E t \in MailTurnIds : Complete(t, Output("success", None))

(* ---------------------- SlackChannel.sendMessage ------------------------ *)
MAX_LENGTH == 4000
MaxChunks == 2     \* longest text sent is MaxChunks * MAX_LENGTH + 1 characters

Min(a, b) == IF a <= b THEN a ELSE b

\* A JID is a platform prefix and the rest of the string.
Jid(prefix, rest) == [prefix |-> prefix, rest |-> rest]
SendJids == {Jid("slack:", "U1"), Jid("slack:", "U2"), Jid("", "cli@local")}

\* jid.replace(/^slack:/, '')
SlackChannelOf(jid) ==
    IF jid.prefix = "slack:" THEN jid.rest ELSE jid.prefix \o jid.rest

\* A text of n characters, each identified by its position.
TextOfLen(n) == [p \in 1..n |-> p]

SendLens ==
    {0, 1} \cup {n \in {k * MAX_LENGTH + d : k \in 1..MaxChunks, d \in {-1, 0, 1}} : n > 0}

\* String.prototype.slice(i, j) for 0 <= i <= j, i and j counted from 0.
Slice(text, i, j) == SubSeq(text, i + 1, Min(j, Len(text)))

\* A split threshold one character too high.
NeedsSplitLoose(text) == Len(text) > MAX_LENGTH + 1

\* text.length <= MAX_LENGTH is false
NeedsSplit(text) == Len(text) > MAX_LENGTH

\* A chunk one character short.
ChunkShort(text, i) == Slice(text, i, i + MAX_LENGTH - 1)

\* text.slice(i, i + MAX_LENGTH)
Chunk(text, i) == Slice(text, i, i + MAX_LENGTH)

\* A catch block that rethrows.
SendCatchRethrows == "rejected"

\* The promise sendMessage returns once its catch block has run.
SendCatch == "resolved"

PostMessage(jid, text) == [channel |-> SlackChannelOf(jid), text |-> text]

SlackInit ==
    /\ app = "null"
    /\ sPc = "idle"
    /\ sJid = Jid("", "")
    /\ sText = <<>>
    /\ sI = 0
    /\ calls = <<>>
    /\ sFailed = FALSE
    /\ sResult = "pending"

\* connect(): this.app = new App(...); await this.app.start()
Connect ==
    /\ UNCHANGED nonSendVars
    /\ app = "null" /\ sPc = "idle"
    /\ app' = "app"
    /\ UNCHANGED <<sPc, sJid, sText, sI, calls, sFailed, sResult>>

\* disconnect(): await this.app.stop(); this.app = null (no send in flight)
Disconnect ==
    /\ UNCHANGED nonSendVars
    /\ app = "app" /\ sPc = "idle"
    /\ app' = "null"
    /\ UNCHANGED <<sPc, sJid, sText, sI, calls, sFailed, sResult>>

\* sendMessage(jid, text) up to its first await.
SendMessage(jid, text) ==
    /\ UNCHANGED nonSendVars
    /\ sPc = "idle"
    /\ sJid' = jid
    /\ sText' = text
    /\ sFailed' = FALSE
    /\ IF app = "null"
         THEN /\ sPc' = "done"
              /\ sResult' = "resolved"
              /\ calls' = <<>>
              /\ sI' = 0
         ELSE /\ sPc' = "posting"
              /\ sResult' = "pending"
              /\ IF NeedsSplit(text)
                   THEN /\ sI' = 0
                        /\ calls' = <<PostMessage(jid, Chunk(text, 0))>>
                   ELSE /\ sI' = -1
                        /\ calls' = <<PostMessage(jid, text)>>
    /\ UNCHANGED app

\* The awaited postMessage resolved: the next loop iteration, or the return.
PostResolves ==
    /\ UNCHANGED nonSendVars
    /\ sPc = "posting"
    /\ IF sI >= 0 /\ sI + MAX_LENGTH < Len(sText)
         THEN /\ sI' = sI + MAX_LENGTH
              /\ calls' = Append(calls, PostMessage(sJid, Chunk(sText, sI + MAX_LENGTH)))
              /\ UNCHANGED <<sPc, sResult>>
         ELSE /\ sPc' = "done"
              /\ sResult' = "resolved"
              /\ UNCHANGED <<sI, calls>>
    /\ UNCHANGED <<app, sJid, sText, sFailed>>

\* A rejection after which the loop goes on to the next chunk.
PostRejectsContinues ==
    /\ UNCHANGED nonSendVars
    /\ sPc = "posting"
    /\ sFailed' = TRUE
    /\ IF sI >= 0 /\ sI + MAX_LENGTH < Len(sText)
         THEN /\ sI' = sI + MAX_LENGTH
              /\ calls' = Append(calls, PostMessage(sJid, Chunk(sText, sI + MAX_LENGTH)))
              /\ UNCHANGED <<sPc, sResult>>
         ELSE /\ sPc' = "done"
              /\ sResult' = SendCatch
              /\ UNCHANGED <<sI, calls>>
    /\ UNCHANGED <<app, sJid, sText>>

\* The awaited postMessage rejected: the catch block logs and returns.
PostRejects ==
    /\ UNCHANGED nonSendVars
    /\ sPc = "posting"
    /\ sFailed' = TRUE
    /\ sPc' = "done"
    /\ sResult' = SendCatch
    /\ UNCHANGED <<app, sJid, sText, sI, calls>>

\* The caller has seen the promise settle; the channel is ready for a send.
SendReturns ==
    /\ UNCHANGED nonSendVars
    /\ sPc = "done"
    /\ sPc' = "idle"
    /\ sJid' = Jid("", "")
    /\ sText' = <<>>
    /\ sI' = 0
    /\ calls' = <<>>
    /\ sFailed' = FALSE
    /\ sResult' = "pending"
    /\ UNCHANGED app

SlackNext ==
    \/ Connect
    \/ Disconnect
    \/ \E jid \in SendJids, n \in SendLens : SendMessage(jid, TextOfLen(n))
    \/ PostResolves
    \/ PostRejects
    \/ SendReturns

(* ------------------ SlackChannel: the message listener ------------------ *)
MaxEvents == 2     \* inbound events delivered to the listener

UserIds == {"U1", "U2"}
EventIds == 1..MaxEvents

\* The fields of a message event the listener reads.
SlackEvent(channel_type, subtype, user) ==
    [channel_type |-> channel_type, subtype |-> subtype, user |-> user]

\* Direct messages of each user, and for one user an event of another
\* channel type, one with a subtype and one without a user field.
InboundEvents ==
    {SlackEvent("im", None, u) : u \in UserIds}
    \cup {SlackEvent("channel", None, "U1"),
          SlackEvent("im", "bot_message", "U1"),
          SlackEvent("im", None, None)}

\* `slack:${userId}`
ChatJid(userId) == Jid("slack:", userId)
SlackJids == {ChatJid(u) : u \in UserIds}

\* result.user of users.info: profile.display_name, real_name, name, each
\* possibly empty.
Profile(display_name, real_name, name) ==
    [display_name |-> display_name, real_name |-> real_name, name |-> name]
Profiles ==
    {Profile("Alice", "Alice R", "alice"), Profile("Alice", "", ""),
     Profile("", "Alice R", "alice"), Profile("", "", "alice"),
     Profile("", "", "")}

\* The chain with the real name tried first.
ResolveNameRealFirst(profile, userId) ==
    IF profile.real_name # "" THEN profile.real_name
    ELSE IF profile.display_name # "" THEN profile.display_name
    ELSE IF profile.name # "" THEN profile.name
    ELSE userId

\* user?.profile?.display_name || user?.real_name || user?.name || userId
ResolveName(profile, userId) ==
    IF profile.display_name # "" THEN profile.display_name
    ELSE IF profile.real_name # "" THEN profile.real_name
    ELSE IF profile.name # "" THEN profile.name
    ELSE userId

\* What a users.info call of a listener invocation came to: not made or
\* not answered yet ("none"), resolved with result.user ("ok"), rejected.
Response(kind, user) == [kind |-> kind, user |-> user]
NoResponse == Response("none", Profile("", "", ""))
Rejected == Response("rejected", Profile("", "", ""))

\* The early returns without the subtype test.
FilteredKeepsSubtypes(ev) ==
    \/ ev.channel_type # "im"
    \/ ev.user = None

\* The three early returns of the listener.
Filtered(ev) ==
    \/ ev.channel_type # "im"
    \/ ev.subtype # None
    \/ ev.user = None

\* A registry test that only asks whether any group is registered.
IsRegisteredAny(jid) == registered # {}

\* const group = this.opts.registeredGroups()[chatJid]; if (!group) return
IsRegistered(jid) == jid \in registered

\* A call of a collaborator: onChatMetadata(chatJid, timestamp, senderName)
\* or onMessage(chatJid, {..., sender, sender_name, ...}).
CollabCall(kind, jid, sender, name) ==
    [kind |-> kind, jid |-> jid, sender |-> sender, name |-> name]

\* The listener with the metadata call behind the registry test.
HandlerCallsGated(userId, senderName) ==
    IF IsRegistered(ChatJid(userId))
      THEN <<CollabCall("metadata", ChatJid(userId), userId, senderName),
             CollabCall("message", ChatJid(userId), userId, senderName)>>
      ELSE <<>>

\* The listener after `await this.resolveUserName(userId)`: onChatMetadata,
\* the registry test, onMessage.  No await separates them.
HandlerCalls(userId, senderName) ==
    <<CollabCall("metadata", ChatJid(userId), userId, senderName)>>
        \o (IF IsRegistered(ChatJid(userId))
              THEN <<CollabCall("message", ChatJid(userId), userId, senderName)>>
              ELSE <<>>)

\* A listener invocation: where it stands, the event it handles, the cached
\* name it read (if any), what its users.info call came to and the
\* collaborator calls it made, in order.
Handler(pc, ev, cached, response, cs) ==
    [pc |-> pc, event |-> ev, cached |-> cached, response |-> response,
     calls |-> cs]
IdleHandler ==
    Handler("idle", SlackEvent("", None, None), None, NoResponse, <<>>)

InboundInit ==
    /\ registered = {}
    /\ handlers = [e \in EventIds |-> IdleHandler]
    /\ userNameCache = [u \in UserIds |-> None]
    /\ lookups = [u \in UserIds |-> 0]

\* The registry the registeredGroups() callback reads gains or loses a JID.
RegistryChanges(jid) ==
    /\ UNCHANGED nonInboundVars
    /\ registered' = IF jid \in registered THEN registered \ {jid}
                      ELSE registered \cup {jid}
    /\ UNCHANGED <<handlers, userNameCache, lookups>>

\* The listener is invoked for event ev: the early returns, then
\* resolveUserName up to its first suspension (the cache read, and on a miss
\* the users.info call).
EventArrives(e, ev) ==
    /\ UNCHANGED nonInboundVars
    /\ app = "app"
    /\ handlers[e].pc = "idle"
    /\ \A d \in EventIds : d < e => handlers[d].pc # "idle"
    /\ IF Filtered(ev)
         THEN /\ handlers' = [handlers EXCEPT ![e] = Handler("dropped", ev, None, NoResponse, <<>>)]
              /\ UNCHANGED lookups
         ELSE IF userNameCache[ev.user] # None
         THEN /\ handlers' = [handlers EXCEPT
                     ![e] = Handler("cached", ev, userNameCache[ev.user],
                                    NoResponse, <<>>)]
              /\ UNCHANGED lookups
         ELSE /\ handlers' = [handlers EXCEPT ![e] = Handler("lookup", ev, None, NoResponse, <<>>)]
              /\ lookups' = [lookups EXCEPT ![ev.user] = @ + 1]
    /\ UNCHANGED <<registered, userNameCache>>

\* resolveUserName returned the cached name; the listener continues.
ResumeCached(e) ==
    /\ UNCHANGED nonInboundVars
    /\ handlers[e].pc = "cached"
    /\ handlers' = [handlers EXCEPT
           ![e].pc = "done",
           ![e].calls = HandlerCalls(handlers[e].event.user, handlers[e].cached)]
    /\ UNCHANGED <<registered, userNameCache, lookups>>

\* users.info resolved: the name is chosen and cached; the listener
\* continues.
LookupResolves(e, profile) ==
    /\ UNCHANGED nonInboundVars
    /\ handlers[e].pc = "lookup"
    /\ LET userId == handlers[e].event.user
           name == ResolveName(profile, userId)
       IN /\ userNameCache' = [userNameCache EXCEPT ![userId] = name]
          /\ handlers' = [handlers EXCEPT
                 ![e].pc = "done",
                 ![e].response = Response("ok", profile),
                 ![e].calls = HandlerCalls(userId, name)]
    /\ UNCHANGED <<registered, lookups>>

\* A rejection of users.info that ends the listener invocation.
LookupRejectsAborts(e) ==
    /\ UNCHANGED nonInboundVars
    /\ handlers[e].pc = "lookup"
    /\ handlers' = [handlers EXCEPT ![e].pc = "done", ![e].response = Rejected]
    /\ UNCHANGED <<registered, userNameCache, lookups>>

\* A rejection after which the user id is cached as the name.
LookupRejectsCaches(e) ==
    /\ UNCHANGED nonInboundVars
    /\ handlers[e].pc = "lookup"
    /\ handlers' = [handlers EXCEPT
           ![e].pc = "done",
           ![e].response = Rejected,
           ![e].calls = HandlerCalls(handlers[e].event.user,
                                     handlers[e].event.user)]
    /\ userNameCache' = [userNameCache EXCEPT
           ![handlers[e].event.user] = handlers[e].event.user]
    /\ UNCHANGED <<registered, lookups>>

\* users.info rejected: the catch block returns the user id, nothing is
\* cached; the listener continues.
LookupRejects(e) ==
    /\ UNCHANGED nonInboundVars
    /\ handlers[e].pc = "lookup"
    /\ handlers' = [handlers EXCEPT
           ![e].pc = "done",
           ![e].response = Rejected,
           ![e].calls = HandlerCalls(handlers[e].event.user,
                                     handlers[e].event.user)]
    /\ UNCHANGED <<registered, userNameCache, lookups>>

InboundNext ==
    \/ Connect
    \/ Disconnect
    \/ \E jid \in SlackJids : RegistryChanges(jid)
    \/ \E e \in EventIds, ev \in InboundEvents : EventArrives(e, ev)
    \/ \E e \in EventIds : ResumeCached(e)
    \/ \E e \in EventIds, profile \in Profiles : LookupResolves(e, profile)
    \/ \E e \in EventIds : LookupRejects(e)

(* ----------------------- SlackChannel.ownsJid --------------------------- *)
MaxProbes == 2     \* ownsJid calls

\* JIDs as strings of characters.
SlackPrefix == <<"s", "l", "a", "c", "k", ":">>

\* JIDs of other channels: the CLI, WhatsApp groups and users, Telegram.
OtherChannelJids ==
    {<<"c", "l", "i", "@", "l", "o", "c", "a", "l">>,
     <<"1", "@", "g", ".", "u", "s">>,
     <<"1", "@", "s", ".", "w", "h", "a", "t", "s", "a", "p", "p", ".", "n", "e", "t">>,
     <<"t", "g", ":", "1">>}

\* The JIDs ownsJid is asked about: Slack JIDs, the bare prefix, JIDs of
\* other channels, and strings that resemble the prefix: without the
\* colon, capitalised, not at the start, empty.
ProbeJids ==
    {SlackPrefix \o <<"U", "1">>, SlackPrefix \o <<"U", "2">>, SlackPrefix}
    \cup OtherChannelJids
    \cup {<<"s", "l", "a", "c", "k">>,
          <<"S", "l", "a", "c", "k", ":", "U", "1">>,
          <<"x">> \o SlackPrefix \o <<"U", "1">>,
          <<"r", "a", "n", "d", "o", "m">>,
          <<>>}

\* String.prototype.startsWith(prefix)
StartsWith(str, prefix) ==
    /\ Len(str) >= Len(prefix)
    /\ SubSeq(str, 1, Len(prefix)) = prefix

\* A test for 'slack:' anywhere in the JID.
ownsJidAnywhere(jid) ==
    \E k \in 0..(Len(jid) - Len(SlackPrefix)) :
        SubSeq(jid, k + 1, k + Len(SlackPrefix)) = SlackPrefix

\* return jid.startsWith('slack:')
ownsJid(jid) == StartsWith(jid, SlackPrefix)

Probe(jid, owned, appThen) == [jid |-> jid, owned |-> owned, app |-> appThen]

ProbeInit == probes = <<>>

\* A caller asks the channel whether it owns jid.
OwnsJidCalled(jid) ==
    /\ UNCHANGED nonProbeVars
    /\ Len(probes) < MaxProbes
    /\ probes' = Append(probes, Probe(jid, ownsJid(jid), app))

OwnsNext ==
    \/ Connect
    \/ Disconnect
    \/ \E jid \in ProbeJids : OwnsJidCalled(jid)

(* ----------------------- the watchdog script --------------------------- *)
MAX_STALE_SECONDS == 300
max_age_seconds == 3900

\* A point in time: whole seconds since the epoch and the milliseconds
\* within the second.
Time(s, ms) == [s |-> s, ms |-> ms]
Epoch0 == Time(1700000000, 0)
After(ds, ms) == Time(Epoch0.s + ds, ms)

\* The instants the clock takes: around the thresholds of both checks.
ClockTimes ==
    {After(ds, ms) : ds \in {0, MAX_STALE_SECONDS, MAX_STALE_SECONDS + 1,
                             max_age_seconds, max_age_seconds + 1},
                     ms \in {0, 1, 999}}

Earlier(t, u) == t.s < u.s \/ (t.s = u.s /\ t.ms < u.ms)

DigitChars == <<"0", "1", "2", "3", "4", "5", "6", "7", "8", "9">>
IsDigit(c) == \E i \in 1..10 : DigitChars[i] = c
DigitVal(c) == (CHOOSE i \in 1..10 : DigitChars[i] = c) - 1

\* The decimal numeral of n, width characters wide.
RECURSIVE Numeral(_, _)
Numeral(n, width) ==
    IF width = 0 THEN <<>>
    ELSE Numeral(n \div 10, width - 1) \o <<DigitChars[(n % 10) + 1]>>

\* The value of a decimal numeral (no leading zero).
RECURSIVE NumeralVal(_)
NumeralVal(q) ==
    IF q = <<>> THEN 0
    ELSE NumeralVal(SubSeq(q, 1, Len(q) - 1)) * 10 + DigitVal(q[Len(q)])

\* The 13 digits of an epoch in milliseconds.
EpochDigits(t) == Numeral(t.s, 10) \o Numeral(t.ms, 3)

\* A container name: the text up to and including the first '-', then one
\* character per element.
EpochName(t) == <<"nanoclaw-">> \o EpochDigits(t)

Instance(name, status, created) ==
    [name |-> name, status |-> status, created |-> created, reaped |-> FALSE]

\* Containers as the runtime may list them: named after their creation
\* epoch and running; stopped; named without an epoch, with letters, with
\* 12 digits, with a digit in front of 13; of another family.
InstanceInputs ==
    {Instance(EpochName(c), "running", c) : c \in {After(0, 0), After(0, 999)}}
    \cup {Instance(EpochName(After(0, 0)), "stopped", After(0, 0)),
          Instance(<<"nanoclaw-">>, "running", After(0, 0)),
          Instance(<<"nanoclaw-", "a", "b", "c">>, "running", After(0, 0)),
          Instance(<<"nanoclaw-">> \o SubSeq(EpochDigits(After(0, 0)), 1, 12),
                   "running", After(0, 0)),
          Instance(<<"nanoclaw-", "2">> \o EpochDigits(After(0, 0)),
                   "running", After(0, 999)),
          Instance(<<"other-">> \o EpochDigits(After(0, 0)), "running",
                   After(0, 0))}

InstanceIds == {"i1", "i2"}

\* The heartbeat file.
NoBeat(kind) == [kind |-> kind, at |-> Epoch0]
Beat(t) == [kind |-> "value", at |-> t]

\* n.startswith('nanoclaw-')
StartsWithNanoclaw(name) == name # <<>> /\ name[1] = "nanoclaw-"

\* echo "$name" | grep -oE '[0-9]{13}$': the last 13 characters when they
\* are all digits, nothing otherwise.
ExtractEpoch(name) ==
    IF /\ Len(name) >= 13
       /\ \A k \in (Len(name) - 12)..Len(name) : IsDigit(name[k])
      THEN SubSeq(name, Len(name) - 12, Len(name))
      ELSE <<>>

\* epoch_s=$((epoch_ms / 1000))
EpochSeconds(epoch_ms) == NumeralVal(SubSeq(epoch_ms, 1, 10))

\* [ "$age" -gt "$max_age_seconds" ]
TooOld(age) == age > max_age_seconds

\* The loop body of cleanup_containers for one listed container, with
\* now=$(date +%s): whether `container stop` is issued.
Reaps(inst, nowS) ==
    /\ inst.status = "running"
    /\ StartsWithNanoclaw(inst.name)
    /\ ExtractEpoch(inst.name) # <<>>
    /\ TooOld(nowS - EpochSeconds(ExtractEpoch(inst.name)))

\* Integer division as the shell does it, truncating toward zero.
ShellDiv(a, b) == IF a >= 0 THEN a \div b ELSE -((-a) \div b)

\* now_ms=$(($(date +%s) * 1000)); age_ms=$((now_ms - last_beat));
\* age_s=$((age_ms / 1000))
HeartbeatAge(nowS, last_beat) ==
    ShellDiv((nowS - last_beat.s) * 1000 - last_beat.ms, 1000)

\* [ "$age_s" -gt "$MAX_STALE_SECONDS" ]
Stale(age_s) == age_s > MAX_STALE_SECONDS

WatchdogInit ==
    /\ now = After(0, 999)
    /\ instances = [i \in InstanceIds |->
                       Instance(<<"other-">>, "stopped", After(0, 0))]
    /\ heartbeat = NoBeat("absent")
    /\ hostProc = "running"
    /\ wpc = "idle"
    /\ wlog = <<>>

\* Time passes.
ClockAdvances(t) ==
    /\ UNCHANGED nonWatchdogVars
    /\ Earlier(now, t)
    /\ now' = t
    /\ UNCHANGED <<instances, heartbeat, hostProc, wpc, wlog>>

\* The host writes the heartbeat file.
HostBeats ==
    /\ UNCHANGED nonWatchdogVars
    /\ hostProc = "running"
    /\ heartbeat # Beat(now)
    /\ heartbeat' = Beat(now)
    /\ UNCHANGED <<now, instances, hostProc, wpc, wlog>>

\* The supervisor (launchd KeepAlive) starts the host again.
HostRestarts ==
    /\ UNCHANGED nonWatchdogVars
    /\ hostProc = "killed"
    /\ hostProc' = "running"
    /\ UNCHANGED <<now, instances, heartbeat, wpc, wlog>>

\* A line of the watchdog log: what it reports and, for a stop, the
\* container.
Logged(line, id) == [line |-> line, id |-> id]

\* The order in which `container ls` lists the table.
InstanceOrder == <<"i1", "i2">>

\* log "Stopping stale container $name ..." for each container the loop of
\* cleanup_containers stops, from position k of the listing on.
RECURSIVE SweepLog(_, _)
SweepLog(k, nowS) ==
    IF k > Len(InstanceOrder) THEN <<>>
    ELSE (IF Reaps(instances[InstanceOrder[k]], nowS)
            THEN <<Logged("Stopping stale container", InstanceOrder[k])>>
            ELSE <<>>) \o SweepLog(k + 1, nowS)

\* The lines of the heartbeat check, and whether pkill is reached.
HeartbeatOutcome(hb, nowS) ==
    IF hb.kind = "absent"
      THEN [kill |-> FALSE, lines |-> <<Logged("No heartbeat file found", "")>>]
    ELSE IF hb.kind = "empty"
      THEN [kill |-> FALSE, lines |-> <<Logged("Heartbeat file empty", "")>>]
    ELSE IF Stale(HeartbeatAge(nowS, hb.at))
      THEN [kill |-> TRUE, lines |-> <<Logged("STALE heartbeat", ""),
                                       Logged("NanoClaw killed", "")>>]
    ELSE [kill |-> FALSE, lines |-> <<>>]

\* A sweep that runs only when there is a heartbeat to check.
SweepNeedsHeartbeat ==
    /\ UNCHANGED nonWatchdogVars
    /\ wpc = "idle"
    /\ wpc' = "heartbeat"
    /\ instances' = [i \in InstanceIds |->
                        IF heartbeat.kind = "value" /\ Reaps(instances[i], now.s)
                          THEN [instances[i] EXCEPT !.status = "stopped",
                                                    !.reaped = TRUE]
                          ELSE instances[i]]
    /\ wlog' = IF heartbeat.kind = "value" THEN SweepLog(1, now.s) ELSE <<>>
    /\ UNCHANGED <<now, heartbeat, hostProc>>

\* A watchdog run, first part: cleanup_containers.
Sweep ==
    /\ UNCHANGED nonWatchdogVars
    /\ wpc = "idle"
    /\ wpc' = "heartbeat"
    /\ instances' = [i \in InstanceIds |->
                        IF Reaps(instances[i], now.s)
                          THEN [instances[i] EXCEPT !.status = "stopped",
                                                    !.reaped = TRUE]
                          ELSE instances[i]]
    /\ wlog' = SweepLog(1, now.s)
    /\ UNCHANGED <<now, heartbeat, hostProc>>

\* A heartbeat check that treats a missing or empty file as stale.
CheckHeartbeatKillsSilent ==
    /\ UNCHANGED nonWatchdogVars
    /\ wpc = "heartbeat"
    /\ wpc' = "idle"
    /\ hostProc' = IF heartbeat.kind # "value" \/ HeartbeatOutcome(heartbeat, now.s).kill
                     THEN "killed" ELSE hostProc
    /\ wlog' = wlog \o HeartbeatOutcome(heartbeat, now.s).lines
    /\ UNCHANGED <<now, instances, heartbeat>>

\* A watchdog run, second part: the heartbeat check.  An absent or empty
\* file ends the run; a stale heartbeat kills the host.
CheckHeartbeat ==
    /\ UNCHANGED nonWatchdogVars
    /\ wpc = "heartbeat"
    /\ wpc' = "idle"
    /\ hostProc' = IF HeartbeatOutcome(heartbeat, now.s).kill
                     THEN "killed" ELSE hostProc
    /\ wlog' = wlog \o HeartbeatOutcome(heartbeat, now.s).lines
    /\ UNCHANGED <<now, instances, heartbeat>>

WatchdogNext ==
    \/ \E t \in ClockTimes : ClockAdvances(t)
    \/ HostBeats
    \/ HostRestarts
    \/ Sweep
    \/ CheckHeartbeat

(* --------------------------- specifications ---------------------------- *)
vars == <<cliVars, slackVars, inboundVars, watchdogVars, probeVars>>

Init == CliInit /\ SlackInit /\ InboundInit /\ WatchdogInit /\ ProbeInit

\* The CLI host, session continuity.
Next == SessionNext
Spec == Init /\ [][Next]_vars

\* The CLI host, mailbox.
MailSpec == Init /\ [][MailNext]_vars

\* The mailbox poll alone, over every envelope the mailbox may hold.
PollInit ==
    /\ host = "running"
    /\ exits = 0
    /\ dbSession = None
    /\ sessions = None
    /\ activeProcess = 0
    /\ activeContainerName = 0
    /\ turns = [t \in TurnIds |-> IdleTurn]
    /\ \E e1 \in AllEnvelopes, e2 \in SandboxEnvelopes :
          files = <<[turn |-> 0, env |-> e1], [turn |-> 0, env |-> e2]>>
    /\ mailbox = {1, 2}
    /\ log = <<>>
    /\ handled = Handled("none", 0, None, None, <<>>)
    /\ readFiles = {}
    /\ snapshot = NoSnapshot
    /\ streamed = 0
    /\ cancelled = NotCancelled
    /\ SlackInit
    /\ InboundInit
    /\ WatchdogInit
    /\ ProbeInit
PollNext == Poll
PollSpec == PollInit /\ [][PollNext]_vars

\* The mailbox poll of a host that can be killed inside a pass and is
\* started again.
CrashNext ==
    \/ Poll
    \/ HostStart
    \/ \E f \in 1..MaxFiles, point \in CrashPoints : PollCrashes(f, point)
CrashSpec == PollInit /\ [][CrashNext]_vars

\* The Slack channel.
SlackSpec == Init /\ [][SlackNext]_vars

\* The Slack channel, inbound events.
InboundSpec == Init /\ [][InboundNext]_vars

\* The Slack channel, asked which JIDs it owns.
OwnsSpec == Init /\ [][OwnsNext]_vars

\* The watchdog, over every table of two containers and a heartbeat file
\* that is absent or empty at first.
WatchdogSpecInit ==
    /\ CliInit /\ SlackInit /\ InboundInit /\ ProbeInit
    /\ now = After(0, 999)
    /\ instances \in [InstanceIds -> InstanceInputs]
    /\ heartbeat \in {NoBeat("absent"), NoBeat("empty")}
    /\ hostProc = "running"
    /\ wpc = "idle"
    /\ wlog = <<>>
WatchdogSpec == WatchdogSpecInit /\ [][WatchdogNext]_vars

\* The CLI host, mailbox, with the scheduling the runtime provides: the
\* interval timer keeps firing while the host runs, and an exited host is
\* started again.
FairMailSpec == MailSpec /\ WF_vars(Poll) /\ WF_vars(HostStart)

(* ------------------------- auxiliary predicates ------------------------ *)
\* Position i of text T lies in an <internal>...</internal> region: some
\* opening tag at or before i has no closing tag between itself and i, and a
\* closing tag at or after i.
InRegion(T, i) ==
    \E o \in 1..i :
        /\ T[o] = "O"
        /\ \A k \in (o + 1)..(i - 1) : T[k] # "C"
        /\ \E c \in i..Len(T) : c > o /\ T[c] = "C"

RECURSIVE VisibleFrom(_, _)
VisibleFrom(T, i) ==
    IF i > Len(T) THEN <<>>
    ELSE (IF InRegion(T, i) THEN <<>> ELSE <<T[i]>>) \o VisibleFrom(T, i + 1)

\* T without its internal regions and without surrounding whitespace.
Expected(T) ==
    LET v == VisibleFrom(T, 1)
        ink == {i \in 1..Len(v) : v[i] # "_"}
    IN IF ink = {} THEN <<>>
       ELSE SubSeq(v, CHOOSE i \in ink : \A k \in ink : i <= k,
                      CHOOSE i \in ink : \A k \in ink : i >= k)

\* An envelope the user is meant to see.
DeliverableEnv(e) ==
    /\ e.suffix = "json" /\ e.parses
    /\ e.type = "message" /\ e.textKind = "string"
    /\ Expected(e.text) # <<>>

Deliveries(f) == {i \in DOMAIN log : log[i].kind = "ipc" /\ log[i].id = f}
Delivered(f) == Deliveries(f) # {}
Written == 1..Len(files)

(* ------------------------------- claims -------------------------------- *)

\* C1: single-flight - at no time are two runContainerAgent calls started by
\* the 'line' handler in progress for the folder.
SingleFlight == Cardinality({t \in TurnIds : Active(t)}) <= 1

\* C2: when the final result of a turn is handled, every deliverable
\* envelope the turn's sandbox wrote has already been delivered by the poll.
InterimBeforeFinal ==
    \A k \in DOMAIN log :
        log[k].kind = "final" =>
            \A f \in Written :
                (files[f].turn = log[k].id /\ DeliverableEnv(files[f].env))
                    => \E j \in Deliveries(f) : j < k

\* C3: a turn completing with a final output that carries token tf leaves
\* tf as the stored token, in the sessions map and in the database, whatever
\* was stored before.
FinalTokenStored ==
    [][\A t \in TurnIds, out \in FinalOutputs :
          (Complete(t, out) /\ out.newSessionId # None)
              => (sessions' = out.newSessionId /\ dbSession' = out.newSessionId)]_vars

\* C3 witness: a turn completed with s2 while s1, stored by an incremental
\* output, was the stored token; s2 is now stored.
FinalTokenStoredWitness ==
    /\ handled.kind = "final"
    /\ handled.newSessionId = "s2"
    /\ handled.prior = "s1"
    /\ turns[handled.turn].pc = "done"
    /\ streamed >= 1
    /\ sessions = "s2" /\ dbSession = "s2"

\* C4: a .json file whose content fails to parse is removed by the polling
\* pass that reads it, and is not delivered.
MalformedRemoved ==
    \A f \in readFiles :
        ~files[f].env.parses => (f \notin mailbox /\ ~Delivered(f))

\* C5: whatever the poll prints for an envelope is the text of a message
\* envelope without its internal regions, trimmed; a message envelope that
\* was read is printed exactly when that text is non-empty; an envelope of
\* another type is never printed.
MailboxRoundTrip ==
    /\ \A i \in DOMAIN log :
          log[i].kind = "ipc" =>
              LET e == files[log[i].id].env
              IN /\ e.parses /\ e.type = "message" /\ e.textKind = "string"
                 /\ log[i].text = Expected(e.text)
    /\ \A f \in readFiles :
          LET e == files[f].env
          IN (e.parses /\ e.textKind # "number") =>
                (Delivered(f) <=> (e.type = "message" /\ Expected(e.text) # <<>>))

\* C5 witness: an envelope whose text had an internal region or surrounding
\* whitespace was delivered.
MailboxRoundTripWitness ==
    \E i \in DOMAIN log :
        /\ log[i].kind = "ipc"
        /\ log[i].text # files[log[i].id].env.text
        /\ \E p \in DOMAIN files[log[i].id].env.text :
              files[log[i].id].env.text[p] = "O"

\* C6: every file a polling pass has read is gone from the mailbox, and no
\* envelope is delivered more than once.
ExactlyOnce ==
    /\ \A f \in readFiles : f \notin mailbox
    /\ \A f \in Written : Cardinality(Deliveries(f)) <= 1

RECURSIVE Concat(_)
Concat(cs) == IF cs = <<>> THEN <<>> ELSE Head(cs).text \o Concat(Tail(cs))

\* A send on a connected channel returned with no transport call failing.
SentAll == sPc = "done" /\ app = "app" /\ ~sFailed

\* C8: a text of exactly 4000 characters is sent in one postMessage call; a
\* text of 4001 characters in two, the second carrying one character.
SendLengthBoundary ==
    SentAll =>
        /\ Len(sText) = MAX_LENGTH => Len(calls) = 1
        /\ Len(sText) = MAX_LENGTH + 1 =>
              (Len(calls) = 2 /\ Len(calls[2].text) = 1)

\* C8 witness: a 4001-character text was sent in two calls.
SendLengthBoundaryWitness ==
    SentAll /\ Len(sText) = MAX_LENGTH + 1 /\ Len(calls) = 2

\* C9: when no call fails, the chunks in call order concatenate to the text,
\* each has at most 4000 characters, each but the last exactly 4000, and a
\* non-empty text takes ceil(length / 4000) calls.
SendChunking ==
    SentAll =>
        /\ Concat(calls) = sText
        /\ \A i \in DOMAIN calls :
              /\ Len(calls[i].text) <= MAX_LENGTH
              /\ i < Len(calls) => Len(calls[i].text) = MAX_LENGTH
        /\ Len(sText) > 0 =>
              Len(calls) = (Len(sText) + MAX_LENGTH - 1) \div MAX_LENGTH

\* C9 witness: a text sent in three chunks, the last one shorter.
SendChunkingWitness ==
    SentAll /\ Len(calls) = 3 /\ Len(calls[3].text) < MAX_LENGTH

\* C10: the promise of sendMessage never rejects; after a rejected
\* postMessage it is resolved and the channel still connected; on a channel
\* that is not connected it resolves with no transport call made.
SendNeverThrows ==
    /\ sResult # "rejected"
    /\ sFailed => (sPc = "done" /\ sResult = "resolved" /\ app = "app")
    /\ (sPc = "done" /\ app = "null") => (calls = <<>> /\ sResult = "resolved")

\* C10 witness: a send whose second postMessage call rejected has resolved.
SendNeverThrowsWitness ==
    sFailed /\ sResult = "resolved" /\ Len(calls) = 2

\* The elements of a sequence.
Range(q) == {q[i] : i \in DOMAIN q}

\* The host exits in this step.
HostExits == host = "running" /\ host' = "exited"

\* C13: when cleanup runs while the sandbox of an active invocation is
\* running, the sentinel step and the forced stop are both attempted on that
\* sandbox, the sentinel first.
CancelBothSteps ==
    [][HostExits =>
          \A t \in TurnIds :
              (Active(t) /\ turns[t].container = "running") =>
                  /\ cancelled'.turn = t
                  /\ cancelled'.steps = <<"sentinel", "stop">>]_vars

\* C14: once the host has exited, every sandbox that was launched and has
\* not terminated has had a stop issued for it.
NoLeakedSandbox ==
    host = "exited" =>
        \A t \in TurnIds :
            turns[t].container = "running" =>
                (cancelled.turn = t /\ "stop" \in Range(cancelled.steps))

\* C15: the handling of an output that carries a token persists the token
\* with setSession before it prints the result or reports an error, and the
\* token is then the persisted one.
DurabilityFirst ==
    handled.newSessionId # None =>
        /\ dbSession = handled.newSessionId
        /\ \E i \in DOMAIN handled.effects :
              /\ handled.effects[i] = "setSession"
              /\ \A j \in 1..(i - 1) :
                    handled.effects[j] \notin {"print", "error"}

\* C15 witness: an incremental output carrying a token and a result has
\* been handled.
DurabilityFirstWitness ==
    /\ handled.kind = "incremental"
    /\ handled.newSessionId = "s2"
    /\ handled.prior = "s1"
    /\ "print" \in Range(handled.effects)

\* C16: the handling of a failure (an error-status output, or an exception
\* of runContainerAgent) that carries no token leaves the stored token as
\* it was when the handling began; after an exception nothing is written.
FailedTurnKeepsToken ==
    /\ ("error" \in Range(handled.effects) /\ handled.newSessionId = None)
           => (dbSession = handled.prior /\ sessions = handled.prior)
    /\ handled.kind = "threw" => "setSession" \notin Range(handled.effects)

\* C16 witness: runContainerAgent threw in a turn started while s1 was the
\* stored token; s1 is still stored.
FailedTurnKeepsTokenWitness ==
    /\ handled.kind = "threw"
    /\ handled.prior = "s1"
    /\ turns[handled.turn].pc = "done"
    /\ dbSession = "s1" /\ sessions = "s1"

\* C17: after the host has exited through cleanup, the persisted token is
\* the one the last handled output left.
CleanupKeepsToken ==
    host = "exited" =>
        dbSession = (IF handled.newSessionId # None
                       THEN handled.newSessionId ELSE handled.prior)

\* C17 witness: the host exited during a turn whose incremental output had
\* stored s1; s1 is the persisted token.
CleanupKeepsTokenWitness ==
    /\ host = "exited"
    /\ handled.kind = "incremental"
    /\ handled.newSessionId = "s1"
    /\ turns[handled.turn].pc = "abandoned"
    /\ dbSession = "s1"

\* C18: while an invocation is active, the folder's snapshot files are not
\* rewritten, and its stored token is written only by the handling of an
\* output of that invocation.
ExclusiveOwnership ==
    [][\A t \in TurnIds :
          Active(t) =>
              /\ snapshot' = snapshot
              /\ dbSession' # dbSession => handled'.turn = t]_vars

\* The positions of the calls of one kind made for event e.
CallsOf(e, kind) ==
    {i \in DOMAIN handlers[e].calls : handlers[e].calls[i].kind = kind}

\* The listener has finished with event e.
Ended(e) == handlers[e].pc \in {"dropped", "done"}

\* A direct message of a user, with no subtype.
PlainDM(ev) == ev.channel_type = "im" /\ ev.subtype = None /\ ev.user # None

\* C11: onMessage is called for an event only in a step in which the JID
\* slack:<user> of the event is registered, and only with that JID.
ForwardOnlyRegistered ==
    [][\A e \in EventIds :
          (CallsOf(e, "message") = {} /\ CallsOf(e, "message")' # {}) =>
              /\ handlers[e].event.user # None
              /\ ChatJid(handlers[e].event.user) \in registered
              /\ registered' = registered
              /\ \A i \in CallsOf(e, "message")' :
                    handlers'[e].calls[i].jid = ChatJid(handlers[e].event.user)]_vars

\* C11 witness: of two handled direct messages of one user, the one handled
\* while the JID was registered was forwarded, the other was not.
ForwardOnlyRegisteredWitness ==
    \E e, d \in EventIds :
        /\ handlers[e].pc = "done" /\ handlers[d].pc = "done"
        /\ handlers[e].event = handlers[d].event
        /\ CallsOf(e, "message") # {}
        /\ CallsOf(d, "message") = {}

\* C12 as stated: every inbound event the listener has finished with had
\* its chat metadata persisted exactly once, before any forwarding.
MetadataEveryEvent ==
    \A e \in EventIds :
        Ended(e) =>
            /\ Cardinality(CallsOf(e, "metadata")) = 1
            /\ \A i \in CallsOf(e, "message") :
                  \E j \in CallsOf(e, "metadata") : j < i

\* C12, amended: every direct message of a user, without subtype, that the
\* listener has finished with had its chat metadata persisted exactly
\* once, registered or not, before any forwarding; at no time is there more
\* than one metadata call for an event or a forwarding without an earlier
\* metadata call.
MetadataEveryPlainDM ==
    \A e \in EventIds :
        /\ (Ended(e) /\ PlainDM(handlers[e].event)) =>
               /\ Cardinality(CallsOf(e, "metadata")) = 1
               /\ \A i \in CallsOf(e, "metadata") :
                     handlers[e].calls[i].jid = ChatJid(handlers[e].event.user)
        /\ Cardinality(CallsOf(e, "metadata")) <= 1
        /\ \A i \in CallsOf(e, "message") :
              \E j \in CallsOf(e, "metadata") : j < i

\* C12 witness: a direct message of an unregistered user was handled with
\* one metadata call and no forwarding, another was forwarded after its
\* metadata call.
MetadataEveryPlainDMWitness ==
    \E e, d \in EventIds :
        /\ handlers[e].pc = "done" /\ handlers[d].pc = "done"
        /\ ChatJid(handlers[e].event.user) \notin registered
        /\ Cardinality(CallsOf(e, "metadata")) = 1
        /\ CallsOf(e, "message") = {}
        /\ CallsOf(d, "metadata") = {1} /\ CallsOf(d, "message") = {2}

\* The sweep of a watchdog run takes place in this step.
SweepRuns == wpc = "idle" /\ wpc' = "heartbeat"

\* Milliseconds from c to t.
AgeMs(t, c) == (t.s - c.s) * 1000 + (t.ms - c.ms)

\* C19: a sweep leaves a running instance named nanoclaw-<creation epoch>
\* alone when its age is exactly the maximum lifetime, and stops it when
\* its age is one millisecond more.
ReaperBoundary ==
    [][SweepRuns =>
          \A i \in InstanceIds :
              (/\ instances[i].status = "running"
               /\ instances[i].name = EpochName(instances[i].created)) =>
                  /\ AgeMs(now, instances[i].created) = max_age_seconds * 1000
                        => ~instances'[i].reaped
                  /\ AgeMs(now, instances[i].created) = max_age_seconds * 1000 + 1
                        => instances'[i].reaped]_vars

\* C20: a sweep stops an instance only if it is running, its name starts
\* with nanoclaw- and the rest of the name is the 13-digit epoch of its
\* creation.
ReaperFailSafe ==
    [][SweepRuns =>
          \A i \in InstanceIds :
              (instances'[i].reaped /\ ~instances[i].reaped) =>
                  /\ instances[i].status = "running"
                  /\ instances[i].name[1] = "nanoclaw-"
                  /\ instances[i].name = EpochName(instances[i].created)]_vars

\* The heartbeat check of a watchdog run takes place in this step.
HeartbeatCheckRuns == wpc = "heartbeat" /\ wpc' = "idle"

\* Some line of the watchdog log reads `line`.
LoggedLine(line) == \E k \in DOMAIN wlog : wlog[k].line = line

\* C21: a heartbeat check leaves a running host alone when the heartbeat is
\* exactly MAX_STALE_SECONDS old, and kills it when the heartbeat is older
\* by any amount, one millisecond included.
HeartbeatBoundary ==
    [][(HeartbeatCheckRuns /\ heartbeat.kind = "value" /\ hostProc = "running") =>
          /\ AgeMs(now, heartbeat.at) = MAX_STALE_SECONDS * 1000
                => hostProc' = "running"
          /\ AgeMs(now, heartbeat.at) > MAX_STALE_SECONDS * 1000
                => hostProc' = "killed"]_vars

\* C22: a heartbeat check that finds the file absent or empty leaves the
\* host process as it is; no step of a watchdog run writes the heartbeat
\* file or brings a killed host back.
NoHeartbeatNoAction ==
    [][/\ (HeartbeatCheckRuns /\ heartbeat.kind # "value") => hostProc' = hostProc
       /\ (SweepRuns \/ HeartbeatCheckRuns) =>
              /\ heartbeat' = heartbeat
              /\ hostProc = "killed" => hostProc' = "killed"]_vars

\* C22 witness: a watchdog run that found no heartbeat file has finished,
\* more than MAX_STALE_SECONDS after the start, and the host still runs.
NoHeartbeatNoActionWitness ==
    /\ wpc = "idle"
    /\ LoggedLine("No heartbeat file found")
    /\ heartbeat.kind = "absent"
    /\ hostProc = "running"
    /\ AgeMs(now, Epoch0) > MAX_STALE_SECONDS * 1000

\* A running instance named after its creation epoch that has outlived the
\* maximum lifetime by a whole second or more.
OverAge(i) ==
    /\ instances[i].status = "running"
    /\ instances[i].name = EpochName(instances[i].created)
    /\ AgeMs(now, instances[i].created) >= (max_age_seconds + 1) * 1000

Arrives(e) == handlers[e].pc = "idle" /\ handlers'[e].pc # "idle"

\* The users.info call made for event e is answered in this step.
Answered(e, kind) ==
    handlers[e].pc = "lookup" /\ handlers'[e].response.kind = kind

\* The first non-empty entry of a chain whose last entry is not empty.
FirstNonEmpty(chain) ==
    chain[CHOOSE k \in DOMAIN chain :
              chain[k] # "" /\ \A j \in 1..(k - 1) : chain[j] = ""]

\* C24: when the users.info call made on a cache miss resolves, the sender
\* name used for the event is the first non-empty of display name, real
\* name, username and user id, and the cache holds that name for the user
\* id afterwards.
ResolutionChain ==
    [][\A e \in EventIds :
          Answered(e, "ok") =>
              LET u == handlers[e].event.user
                  p == handlers'[e].response.user
                  name == FirstNonEmpty(<<p.display_name, p.real_name, p.name, u>>)
              IN /\ handlers[e].cached = None
                 /\ \A i \in DOMAIN handlers'[e].calls :
                       handlers'[e].calls[i].name = name
                 /\ handlers'[e].calls # <<>>
                 /\ userNameCache'[u] = name]_vars

\* C24 witness: a lookup answered with an empty display name and a real
\* name was handled, and one answered with no name at all.
ResolutionChainWitness ==
    \E e, d \in EventIds :
        /\ handlers[e].pc = "done" /\ handlers[e].response.kind = "ok"
        /\ handlers[e].response.user.display_name = ""
        /\ handlers[e].response.user.real_name # ""
        /\ handlers[e].calls[1].name = handlers[e].response.user.real_name
        /\ handlers[d].pc = "done" /\ handlers[d].response.kind = "ok"
        /\ handlers[d].response.user = Profile("", "", "")
        /\ handlers[d].event.user # handlers[e].event.user
        /\ userNameCache[handlers[d].event.user] = handlers[d].event.user

\* C25: when users.info rejects for a direct message whose JID is
\* registered, the listener still calls onChatMetadata and then onMessage,
\* both with the user id as sender name; for an unregistered JID it still
\* calls onChatMetadata.
LookupFailureDelivers ==
    [][\A e \in EventIds :
          Answered(e, "rejected") =>
              LET u == handlers[e].event.user
              IN /\ handlers'[e].pc = "done"
                 /\ handlers'[e].calls =
                       <<CollabCall("metadata", ChatJid(u), u, u)>>
                       \o (IF ChatJid(u) \in registered
                             THEN <<CollabCall("message", ChatJid(u), u, u)>>
                             ELSE <<>>)]_vars

\* C25 witness: a direct message whose lookup was rejected was forwarded
\* under the user id.
LookupFailureDeliversWitness ==
    \E e \in EventIds :
        /\ handlers[e].pc = "done" /\ handlers[e].response.kind = "rejected"
        /\ CallsOf(e, "metadata") = {1} /\ CallsOf(e, "message") = {2}
        /\ handlers[e].calls[2].name = handlers[e].event.user

\* C26: of the users.info calls made for one user id, at most one resolves
\* successfully.
MemoizedLookup ==
    \A u \in UserIds :
        Cardinality({e \in EventIds : /\ handlers[e].event.user = u
                                      /\ handlers[e].response.kind = "ok"}) <= 1

\* C30: an event that is not a direct message, has a subtype or has no
\* user is dropped on arrival: no users.info call is issued for it and no
\* collaborator is ever called for it.
FilteredEventsIgnored ==
    [][\A e \in EventIds :
          /\ (Arrives(e) /\ ~PlainDM(handlers'[e].event)) =>
                 /\ lookups' = lookups
                 /\ userNameCache' = userNameCache
                 /\ handlers'[e].calls = <<>>
          /\ (handlers[e].pc # "idle" /\ ~PlainDM(handlers[e].event)) =>
                 handlers'[e] = handlers[e]]_vars

\* C30 witness: an event with a subtype and an event of another channel
\* type were dropped, with no lookup made.
FilteredEventsIgnoredWitness ==
    \E e, d \in EventIds :
        /\ handlers[e].pc = "dropped" /\ handlers[e].event.subtype # None
        /\ handlers[d].pc = "dropped" /\ handlers[d].event.channel_type # "im"
        /\ \A u \in UserIds : lookups[u] = 0

\* The first six characters of a JID spell slack: .
SpellsSlack(jid) ==
    /\ Len(jid) >= 6
    /\ jid[1] = "s" /\ jid[2] = "l" /\ jid[3] = "a" /\ jid[4] = "c"
    /\ jid[5] = "k" /\ jid[6] = ":"

\* C27: a call of ownsJid changes nothing; its answer is TRUE exactly for
\* the JIDs that start with slack: , so FALSE for the JIDs of the CLI,
\* WhatsApp and Telegram; and it is the answer every earlier call gave for
\* the same JID, whether the channel was connected or not.
JidPartition ==
    [][probes' # probes =>
          LET r == probes'[Len(probes')]
          IN /\ UNCHANGED nonProbeVars
             /\ probes' = Append(probes, r)
             /\ r.owned = SpellsSlack(r.jid)
             /\ r.jid \in OtherChannelJids => ~r.owned
             /\ \A k \in DOMAIN probes :
                   probes[k].jid = r.jid => probes[k].owned = r.owned]_vars

\* C27 witness: the channel was asked about one Slack JID before and after
\* connecting and answered TRUE both times.
JidPartitionWitness ==
    /\ Len(probes) = 2
    /\ probes[1].jid = probes[2].jid
    /\ probes[1].app # probes[2].app
    /\ probes[1].owned /\ probes[2].owned

\* C28: the step in which a 'line' handler starts a turn writes the tasks
\* snapshot and then the groups snapshot for that turn, and a sandbox is
\* launched, or the launch fails, only for a turn that has taken that step.
SnapshotsBeforeLaunch ==
    [][\A t \in TurnIds :
          /\ (turns[t].pc = "idle" /\ turns'[t].pc # "idle" /\ host' = "running") =>
                 /\ turns'[t].pc = "launching"
                 /\ turns'[t].container = "none"
                 /\ snapshot' = Snapshot(t, <<"tasks", "groups">>)
          /\ (turns[t].container = "none" /\ turns'[t].container # "none") =>
                 /\ turns[t].pc = "launching"
                 /\ snapshot.turn >= t
                 /\ snapshot.writes = <<"tasks", "groups">>]_vars

\* C28 witness: the sandbox of the second turn runs, and the snapshot files
\* are the two that turn wrote.
SnapshotsBeforeLaunchWitness ==
    /\ MaxTurns >= 2
    /\ turns[2].container = "running"
    /\ snapshot = Snapshot(2, <<"tasks", "groups">>)

\* The crashes that hit file f at the given point of the loop body.
Crashes(f, point) ==
    {k \in DOMAIN log : /\ log[k].kind = "crash" /\ log[k].id = f
                         /\ log[k].text = <<point>>}

\* C29 as stated: a crash between delivery and deletion of a file leads to
\* one more delivery of it once it is polled again, and a crash between the
\* read and the deletion of a deliverable file that was not yet delivered
\* loses it: the file is gone and was never delivered.
CrashWindowsLose ==
    \A f \in Written :
        DeliverableEnv(files[f].env) =>
            /\ f \notin mailbox =>
                  Cardinality(Deliveries(f)) >= 1 + Cardinality(Crashes(f, "delivered"))
            /\ (Crashes(f, "read") # {} /\ Crashes(f, "delivered") = {}) =>
                  (f \notin mailbox /\ ~Delivered(f))

\* C29, amended: a deliverable file is delivered once for every crash that
\* fell between its delivery and its deletion, and once more when it has
\* left the mailbox; a crash between its read and its delivery adds no
\* delivery and leaves the file in place, so no crash loses a message.
CrashWindows ==
    \A f \in Written :
        DeliverableEnv(files[f].env) =>
            /\ f \in mailbox =>
                  Cardinality(Deliveries(f)) = Cardinality(Crashes(f, "delivered"))
            /\ f \notin mailbox =>
                  Cardinality(Deliveries(f)) = 1 + Cardinality(Crashes(f, "delivered"))
            /\ \A k \in Crashes(f, "read") :
                  f \in mailbox \/ \E j \in Deliveries(f) : j > k

\* C29 witness: after a restart the poll delivered a second time a file hit
\* by a crash between delivery and deletion, and delivered for the first
\* time a file hit by a crash between read and delivery.
CrashWindowsWitness ==
    \E f, g \in Written :
        /\ f # g
        /\ Crashes(f, "delivered") # {} /\ Cardinality(Deliveries(f)) = 2
        /\ Crashes(g, "read") # {} /\ Crashes(g, "delivered") = {}
        /\ Cardinality(Deliveries(g)) = 1
        /\ mailbox = {}

\* The invocation of turn t, registered through onLaunch, is still running.
StillRunning(t) ==
    /\ host = "running"
    /\ turns[t].pc = "awaiting"
    /\ turns[t].container = "running"

\* C31: while some invocation registered through onLaunch is still running,
\* activeProcess and activeContainerName both refer to an invocation that is
\* still running.
HandlesTrackRunning ==
    (\E t \in TurnIds : StillRunning(t)) =>
        /\ activeProcess # 0 /\ StillRunning(activeProcess)
        /\ activeContainerName # 0 /\ StillRunning(activeContainerName)

\* C32: an output of a turn that started earlier, handled right after a
\* token-carrying output of a turn that started later, leaves the stored
\* token as the later turn wrote it.
NoLostTokenUpdate ==
    [][(/\ handled'.turn # 0 /\ handled.turn # 0
        /\ handled'.turn < handled.turn
        /\ handled.newSessionId # None)
          => /\ sessions' = sessions
             /\ dbSession' = dbSession]_vars

\* Chunk k of a text, counted from 1.
ChunkNo(text, k) ==
    SubSeq(text, (k - 1) * MAX_LENGTH + 1, Min(k * MAX_LENGTH, Len(text)))

\* C33: when a postMessage call of a send rejects, the calls made are those
\* for the chunks up to the one that failed, each made once; the send ends
\* there, resolved, and no further call is made for it.
PartialSend ==
    [][/\ (sPc = "posting" /\ sFailed') =>
              /\ calls' = calls
              /\ sPc' = "done" /\ sResult' = "resolved"
              /\ NeedsSplit(sText) =>
                    \A k \in DOMAIN calls :
                        calls[k] = PostMessage(sJid, ChunkNo(sText, k))
       /\ sFailed => (sPc = "done" /\ (calls' = calls \/ sPc' = "idle"))]_vars

\* C33 witness: the call for the second of three chunks rejected; two calls
\* were made and the send resolved.
PartialSendWitness ==
    /\ sFailed /\ sPc = "done" /\ sResult = "resolved"
    /\ Len(sText) > 2 * MAX_LENGTH
    /\ Len(calls) = 2

====
